---------------------------- MODULE Spec2Model ----------------------------
(***************************************************************************)
(* Model of the v0-mcp-ts tool servers: a tool invocation is validated by  *)
(* the dispatcher, the handler starts a metrics session, checks the        *)
(* cancellation signal, and calls generateWithOptimalStreaming, which      *)
(* folds the provider's fragment stream into one result while yielding to  *)
(* the event loop every 100 fragments.                                     *)
(*                                                                         *)
(* Strings are sequences of tokens, so that concatenation and prefixes     *)
(* are computed and not assumed.                                           *)
(***************************************************************************)
EXTENDS Integers, Sequences, FiniteSets, TLC

\* ------------------------------------------------------------------ bounds
MaxLen == 3        \* fragments a provider emits in the free mode
LongLen == 250     \* fragments a provider emits in the long mode
MaxTime == 2       \* ticks of Date.now()
MaxCalls == 4      \* direct calls made on performanceTracker
ConcLen == 2       \* free fragments of each of two generations side by side

\* ------------------------------------------------------- program constants
YieldEvery == 100  \* the period of the yield test

InvIds == {1, 2}   \* invocation slots (concurrently running handler calls)

\* --------------------------------------------------------------- the tools
\* The tools of src/tools/*, registered by registerTools() of server/index.ts.
ModularNames ==
  {"generate_component", "refactor_component", "shadcn_component_generator",
   "accessibility_auditor", "tailwind_layout_generator", "css_theme_generator"}

\* The first four server.tool(...) registrations of src/index.ts.
BasicNames == {"generate_webapp", "enhance_code", "debug_code", "generate_component"}

\* The seven later server.tool(...) registrations of src/index.ts.
TrackedNames ==
  {"analyze_refactor_code", "generate_database_schema", "generate_api_endpoints",
   "generate_tests", "generate_cicd_pipeline", "optimize_performance",
   "security_audit"}

Tools ==
  [server : {"server/index.ts"}, name : ModularNames]
    \cup [server : {"index.ts"}, name : BasicNames \cup TrackedNames]

\* The handler calls performanceTracker.startSession / trackTool / getMetrics.
TracksSession(t) == t.server = "server/index.ts" \/ t.name \in TrackedNames

\* The handler tests extra?.signal?.aborted before building the prompt.
ChecksCancel(t) == t.server = "server/index.ts"

\* The key under which the handler returns its metadata.
MetaKey(t) == IF t.server = "server/index.ts" THEN "_meta" ELSE "metadata"

\* The success metadata carries chunkCount: result.chunkCount.
MetaHasChunkCount(t) == t.server = "server/index.ts" \/ t.name \in BasicNames

\* The second argument of generateWithOptimalStreaming in each handler.
MaxTokens(t) ==
  IF t.server = "server/index.ts"
  THEN CASE t.name = "generate_component" -> 3000
         [] t.name = "refactor_component" -> 4500
         [] t.name = "shadcn_component_generator" -> 4500
         [] t.name = "accessibility_auditor" -> 4000
         [] t.name = "tailwind_layout_generator" -> 4000
         [] t.name = "css_theme_generator" -> 3500
  ELSE CASE t.name = "generate_webapp" -> 4000
         [] t.name = "enhance_code" -> 3000
         [] t.name = "debug_code" -> 3000
         [] t.name = "generate_component" -> 2500
         [] t.name = "analyze_refactor_code" -> 4000
         [] t.name = "generate_database_schema" -> 4000
         [] t.name = "generate_api_endpoints" -> 5000
         [] t.name = "generate_tests" -> 4500
         [] t.name = "generate_cicd_pipeline" -> 4000
         [] t.name = "optimize_performance" -> 4500
         [] t.name = "security_audit" -> 4500

\* The text before ${error.message} in each handler's catch block.
ErrorPrefix(t) ==
  IF t.server = "server/index.ts"
  THEN CASE t.name = "generate_component" -> <<"Error generating component: ">>
         [] t.name = "refactor_component" -> <<"Error refactoring component: ">>
         [] t.name = "shadcn_component_generator" -> <<"Error generating shadcn component: ">>
         [] t.name = "accessibility_auditor" -> <<"Error performing accessibility audit: ">>
         [] t.name = "tailwind_layout_generator" -> <<"Error generating layout: ">>
         [] t.name = "css_theme_generator" -> <<"Error generating CSS theme: ">>
  ELSE CASE t.name = "generate_webapp" -> <<"Error generating web application: ">>
         [] t.name = "enhance_code" -> <<"Error enhancing code: ">>
         [] t.name = "debug_code" -> <<"Error debugging code: ">>
         [] t.name = "generate_component" -> <<"Error generating component: ">>
         [] t.name = "analyze_refactor_code" -> <<"Error analyzing code: ">>
         [] t.name = "generate_database_schema" -> <<"Error generating database schema: ">>
         [] t.name = "generate_api_endpoints" -> <<"Error generating API: ">>
         [] t.name = "generate_tests" -> <<"Error generating tests: ">>
         [] t.name = "generate_cicd_pipeline" -> <<"Error generating CI/CD pipeline: ">>
         [] t.name = "optimize_performance" -> <<"Error optimizing performance: ">>
         [] t.name = "security_audit" -> <<"Error performing security audit: ">>

\* The fields of each input schema that are neither .optional() nor .default().
Required(t) ==
  IF t.server = "server/index.ts"
  THEN CASE t.name = "generate_component" -> {"component_name", "theme"}
         [] t.name = "refactor_component" -> {"code"}
         [] t.name = "shadcn_component_generator" -> {"component_name", "component_type"}
         [] t.name = "accessibility_auditor" -> {"code"}
         [] t.name = "tailwind_layout_generator" -> {"layout_name"}
         [] t.name = "css_theme_generator" -> {"theme_name", "primary_color"}
  ELSE CASE t.name = "generate_webapp" -> {"prompt"}
         [] t.name = "enhance_code" -> {"code", "enhancement"}
         [] t.name = "debug_code" -> {"code"}
         [] t.name = "generate_component" -> {"component_name", "description"}
         [] t.name = "analyze_refactor_code" -> {"code"}
         [] t.name = "generate_database_schema" -> {"description"}
         [] t.name = "generate_api_endpoints" -> {"api_description"}
         [] t.name = "generate_tests" -> {"code"}
         [] t.name = "generate_cicd_pipeline" -> {"project_type"}
         [] t.name = "optimize_performance" -> {"project_type"}
         [] t.name = "security_audit" -> {"project_type"}

\* The input schema declares at least one z.enum field.
HasEnum(t) == ~(t.server = "index.ts" /\ t.name \in {"enhance_code", "debug_code"})


\* ------------------------------------------------------------ the provider
\* Text fragments the provider's textStream can emit.
Fragments == {<<"a">>, <<"b", "c">>}

\* The k-th fragment of a long generation.
CycleFragment(k) == IF k % 2 = 1 THEN <<"a">> ELSE <<"b", "c">>

\* Complete texts a buffered generateText call can return.
Texts == {<<>>, <<"t", "u">>}

\* The opaque usage statistics of the provider.
Usages == {"u1", "u2"}

\* Values a provider call can throw: an Error object with a message, or a
\* value that is not an instance of Error.
ProviderErrors ==
  {[isErrorObject |-> TRUE, message |-> <<"quota exceeded">>],
   [isErrorObject |-> FALSE, message |-> <<>>]}

\* new Error("Request was cancelled")
CancelError == [isErrorObject |-> TRUE, message |-> <<"Request was cancelled">>]

\* Identifiers nanoid() can return.
SessionIds == {"s0", "s1"}

\* ---------------------------------------------------- performanceTracker
\* A startSession that only refreshes the start time of an existing entry.
startSession_KeepsHistory(S, sessionId, t) ==
  [x \in (DOMAIN S) \cup {sessionId} |->
     IF x = sessionId
     THEN [startTime |-> t,
           tools |-> IF x \in DOMAIN S THEN S[x].tools ELSE <<>>]
     ELSE S[x]]

\* A startSession that empties the registry first.
startSession_ClearsAll(S, sessionId, t) ==
  [x \in {sessionId} |-> [startTime |-> t, tools |-> <<>>]]

startSession(S, sessionId, t) ==
  [x \in (DOMAIN S) \cup {sessionId} |->
     IF x = sessionId THEN [startTime |-> t, tools |-> <<>>] ELSE S[x]]

\* A trackTool that opens a session for an id that has none.
trackTool_Creates(S, sessionId, toolName) ==
  IF sessionId \in DOMAIN S
  THEN [S EXCEPT ![sessionId].tools = Append(@, toolName)]
  ELSE [x \in (DOMAIN S) \cup {sessionId} |->
          IF x = sessionId THEN [startTime |-> 0, tools |-> <<toolName>>]
          ELSE S[x]]

\* A trackTool that puts the name in front of the history.
trackTool_Unshift(S, sessionId, toolName) ==
  IF sessionId \in DOMAIN S
  THEN [S EXCEPT ![sessionId].tools = <<toolName>> \o @]
  ELSE S

trackTool(S, sessionId, toolName) ==
  IF sessionId \in DOMAIN S
  THEN [S EXCEPT ![sessionId].tools = Append(@, toolName)]
  ELSE S

\* duration / toolsUsed is a floating-point division: it is kept as the pair
\* of its operands, a zero denominator standing for Infinity or NaN.
getMetrics(S, sessionId, t) ==
  IF sessionId \notin DOMAIN S
  THEN [isNull |-> TRUE]
  ELSE [isNull |-> FALSE,
        duration |-> t - S[sessionId].startTime,
        toolsUsed |-> Len(S[sessionId].tools),
        tools |-> S[sessionId].tools,
        averageToolTime |-> [num |-> t - S[sessionId].startTime,
                             den |-> Len(S[sessionId].tools)]]

\* ------------------------------------------------------------ input parsing
\* A schema check that does not look at the enum fields.
SchemaAccepts_IgnoresEnum(t, a) == a.missing = "none"

\* stream: z.boolean().optional().default(true)
ParseStream(raw) == IF raw = "false" THEN FALSE ELSE TRUE

\* The zod object schema accepts the arguments: every required field is
\* present and every enum field holds a declared value.
SchemaAccepts(t, a) == a.missing = "none" /\ ~a.badEnum

\* Argument maps a client can send to tool t.
\* payload is the text of the fields a prompt template interpolates; unknown
\* says that the map also holds a key the schema does not declare.
ArgsWith(t, payloads, unknowns) ==
  [missing : Required(t) \cup {"none"},
   badEnum : IF HasEnum(t) THEN BOOLEAN ELSE {FALSE},
   stream  : {"true", "false", "absent"},
   payload : payloads,
   unknown : unknowns]

\* Values of the interpolated fields.
Payloads == {<<"Card">>, <<"Nav", "dark">>}

ArgsOf(t) == ArgsWith(t, {<<"Card">>}, {FALSE})

\* The error the dispatcher throws for arguments that do not parse: the
\* issues of the failed parse, each with the path of its field.
ValidationError(t, a) ==
  [isErrorObject |-> TRUE,
   message |-> <<"Invalid arguments for tool ", t.name, ": ">>
               \o (IF a.missing # "none" THEN <<a.missing, "Required">> ELSE <<>>)
               \o (IF a.badEnum THEN <<"Invalid enum value">> ELSE <<>>)]

Requests == UNION {[tool : {t}, args : ArgsOf(t)] : t \in Tools}

\* The requests of the long-generation scenario.
LongRequests ==
  {r \in Requests :
     /\ r.tool \in {[server |-> "server/index.ts", name |-> "generate_component"],
                    [server |-> "index.ts", name |-> "generate_webapp"],
                    [server |-> "index.ts", name |-> "analyze_refactor_code"]}
     /\ r.args.missing = "none"
     /\ ~r.args.badEnum
     /\ r.args.stream = "true"}

\* Every request, with and without an undeclared key in its argument map.
WideRequests ==
  UNION {[tool : {t}, args : ArgsWith(t, {<<"Card">>}, BOOLEAN)] : t \in Tools}

\* Valid buffered requests with either payload, for two invocations at once.
PairRequests ==
  UNION {[tool : {t}, args : {a \in ArgsWith(t, Payloads, {FALSE}) :
                                 /\ a.missing = "none"
                                 /\ ~a.badEnum
                                 /\ a.stream = "false"}] :
         t \in {[server |-> "server/index.ts", name |-> "generate_component"],
                [server |-> "server/index.ts", name |-> "accessibility_auditor"]}}

\* Valid requests to the handlers of src/tools for two invocations at once.
\* With the "pair" script: a generation in slot 1 and either tool in slot 2,
\* each streamed or buffered. With the "fixed" script: a streamed generation
\* in slot 1 beside a buffered audit in slot 2.
ConcRequests(i, m) ==
  UNION {[tool : {t}, args : {a \in ArgsOf(t) :
                                 /\ a.missing = "none"
                                 /\ ~a.badEnum
                                 /\ (m = "fixed" => a.stream = (IF i = 1 THEN "true" ELSE "false"))}] :
         t \in {[server |-> "server/index.ts", name |-> n] :
                  n \in IF i = 1 THEN {"generate_component"}
                        ELSE IF m = "fixed" THEN {"accessibility_auditor"}
                        ELSE {"generate_component", "accessibility_auditor"}}}

\* ------------------------------------------------------------- the envelope
\* An error text that reads .message of whatever was thrown.
ErrorText_NoFallback(t, e) == ErrorPrefix(t) \o e.message

\* `${error instanceof Error ? error.message : "Unknown error"}` after the prefix
ErrorText(t, e) ==
  ErrorPrefix(t) \o (IF e.isErrorObject THEN e.message ELSE <<"Unknown error">>)

\* The value returned by a handler's catch block.
ErrorEnvelope(t, e) ==
  [content |-> << [type |-> "text", text |-> ErrorText(t, e)] >>,
   isError |-> "true",
   metaKey |-> "none",
   meta |-> << >>]

\* A success envelope that leaves content empty when no text was generated.
SuccessEnvelope_SkipsEmptyText(t, result, metrics) ==
  [content |-> IF result.text = <<>> THEN <<>>
               ELSE << [type |-> "text", text |-> result.text] >>,
   isError |-> "absent",
   metaKey |-> IF t.server = "server/index.ts" THEN "_meta" ELSE "metadata",
   meta |-> [streamed |-> result.streamed, usage |-> result.usage]]

\* The metadata object of a handler's success return.
SuccessMeta(t, result, metrics) ==
  [streamed |-> result.streamed, usage |-> result.usage]
    @@ (IF MetaHasChunkCount(t) THEN [chunkCount |-> result.chunkCount] ELSE << >>)
    @@ (IF TracksSession(t) THEN [performance_metrics |-> metrics] ELSE << >>)

\* The value returned by a handler's try block; it has no isError field.
SuccessEnvelope(t, result, metrics) ==
  [content |-> << [type |-> "text", text |-> result.text] >>,
   isError |-> "absent",
   metaKey |-> MetaKey(t),
   meta |-> SuccessMeta(t, result, metrics)]


\* ------------------------------------------------------------------- state
VARIABLES
  inv,        \* per invocation slot: the handler call's position and locals
  sessions,   \* performanceTracker.sessions
  now,        \* Date.now()
  mode,       \* the provider's script: "free", "long", "pair" or "fixed"
  apiLog,     \* the direct calls made on performanceTracker, in order
  apiRet,     \* what the last of these calls returned
  proc,       \* the process: its entry point, environment and MCP server
  http        \* the HTTP wrapper: its lazily loaded server and its requests

vars == <<inv, sessions, now, mode, apiLog, apiRet, proc, http>>

NoTool == [server |-> "none", name |-> "none"]
NoArgs == [missing |-> "none", badEnum |-> FALSE, stream |-> "absent", payload |-> <<>>,
           unknown |-> FALSE]
NoValue == [isErrorObject |-> FALSE, message |-> <<>>]
NoResult == [text |-> <<>>, usage |-> "none", streamed |-> FALSE, chunkCount |-> 0]
NoEnvelope == [content |-> <<>>, isError |-> "absent", metaKey |-> "none", meta |-> << >>]
Undefined == [isUndefined |-> TRUE]

\* ------------------------------------------------------------ the process
\* The files a process can be started from: src/index.ts (its main), the
\* startServer of src/server/index.ts, and src/http-server.ts.
Entries == {"index.ts", "server/index.ts", "http-server.ts"}

\* The names each server registers.
ToolsOf(entry) ==
  CASE entry = "index.ts" -> BasicNames \cup TrackedNames
    [] entry = "server/index.ts" -> ModularNames
    [] OTHER -> {}

ResourcesOf(entry) ==
  CASE entry = "index.ts" -> {"v0-api-docs", "performance-metrics", "code-templates"}
    [] entry = "server/index.ts" -> {"v0-api-docs", "performance-metrics"}
    [] OTHER -> {}

PromptsOf(entry) ==
  CASE entry = "index.ts" ->
         {"create-webapp", "design-database", "create-api", "optimize-app"}
    [] entry = "server/index.ts" ->
         {"audit-accessibility", "generate-component", "create-webapp",
          "refactor-component", "generate-css-theme",
          "generate-shadcn-component", "generate-tailwind-layout"}
    [] OTHER -> {}

\* available_tools of the v0://performance resource: the same literal list in
\* both servers.
AvailableTools(entry) == BasicNames \cup TrackedNames

NoListing == [tools |-> {}, resources |-> {}, prompts |-> {}]

\* A process of entry point `entry` started with V0_API_KEY in state `key`
\* ("unset", "empty" or "k"), before any of its code has run.
NewProcess(entry, key) ==
  [entry |-> entry, startKey |-> key, key |-> key,
   status |-> "loading", exitCode |-> 0, accepting |-> FALSE,
   tools |-> {}, resources |-> {}, prompts |-> {},
   listed |-> FALSE, listing |-> NoListing,
   snapshotRead |-> FALSE, snapshot |-> {}]

\* A server that is up, for the specifications that start from there.
ServingProcess ==
  [NewProcess("any", "k") EXCEPT !.status = "running", !.accepting = TRUE]

\* The requests the HTTP wrapper handles at once.
ReqIds == {1, 2}

NoRequest ==
  [phase |-> "none", method |-> "none", keyParam |-> "absent", body |-> "none",
   status |-> 0, kind |-> "none", code |-> 0, keyAtEnd |-> "unset",
   gotServer |-> FALSE, connectedThen |-> FALSE]

\* The wrapper of a fresh process: `let mcpServer = null`, nothing connected.
NoHttp ==
  [mcpServer |-> "null", moduleLoaded |-> FALSE,
   connects |-> 0, connected |-> FALSE,
   req |-> [r \in ReqIds |-> NoRequest]]

\* A slot before any request: pc is the position of the invocation,
\*   idle -> received -> rejected | validated -> streamText | generateText
\*        -> streaming <-> yielding -> usage -> returned
\* emitted, yieldAt, thrown, started, abortedAtStart, sessionsBefore and
\* outcome record what happened and are read by no action.
IdleSlot ==
  [pc |-> "idle", tool |-> NoTool, args |-> NoArgs, aborted |-> FALSE,
   stream |-> TRUE, sessionId |-> "none",
   fullText |-> <<>>, chunks |-> <<>>, calls |-> <<>>,
   result |-> NoResult, hasResult |-> FALSE, envelope |-> NoEnvelope,
   emitted |-> <<>>, yieldAt |-> <<>>, thrown |-> NoValue,
   started |-> FALSE, abortedAtStart |-> FALSE,
   sessionsBefore |-> << >>, outcome |-> "none"]

\* The registry once startServer() has run: the main session, no tool tracked.
InitSessions == [x \in {"s0"} |-> [startTime |-> 0, tools |-> <<>>]]

InitWith(m, active) ==
  /\ inv = [i \in InvIds |-> IF i \in active THEN IdleSlot
                             ELSE [IdleSlot EXCEPT !.pc = "off"]]
  /\ sessions = InitSessions
  /\ now = 0
  /\ mode = m
  /\ apiLog = <<>>
  /\ apiRet = Undefined
  /\ proc = ServingProcess
  /\ http = NoHttp

Init == InitWith("free", {1})

InitLong == InitWith("long", {1})

\* ----------------------------------------------------------------- actions
\* A clock whose last tick fails every invocation still waiting on the provider.
Tick_Timeout ==
  /\ now < MaxTime
  /\ now' = now + 1
  /\ inv' = [i \in InvIds |->
       IF now + 1 = MaxTime
          /\ inv[i].pc \in {"streamText", "generateText", "streaming",
                            "yielding", "usage"}
       THEN [inv[i] EXCEPT !.pc = "returned",
                           !.outcome = "timeout",
                           !.envelope = ErrorEnvelope(inv[i].tool, NoValue)]
       ELSE inv[i]]
  /\ UNCHANGED <<sessions, mode, apiLog, apiRet, proc, http>>

\* Date.now() advances.
Tick ==
  /\ now < MaxTime
  /\ now' = now + 1
  /\ UNCHANGED <<inv, sessions, mode, apiLog, apiRet, proc, http>>

\* A tools/call request reaches the server.
Receive(i, reqs) ==
  /\ inv[i].pc = "idle"
  /\ \E r \in reqs :
       inv' = [inv EXCEPT ![i] = [IdleSlot EXCEPT !.pc = "received",
                                                  !.tool = r.tool,
                                                  !.args = r.args,
                                                  !.sessionsBefore = sessions]]
  /\ UNCHANGED <<sessions, now, mode, apiLog, apiRet, proc, http>>

\* An AbortSignal that stops a handler that is already running.
Abort_Interrupts(i) ==
  /\ inv[i].pc \in {"received", "validated", "streamText", "generateText",
                    "streaming", "yielding", "usage"}
  /\ ~inv[i].aborted
  /\ inv' = [inv EXCEPT ![i] =
       IF inv[i].started
       THEN [@ EXCEPT !.aborted = TRUE,
                      !.pc = "returned",
                      !.thrown = CancelError,
                      !.outcome = "cancelled",
                      !.envelope = ErrorEnvelope(inv[i].tool, CancelError)]
       ELSE [@ EXCEPT !.aborted = TRUE]]
  /\ UNCHANGED <<sessions, now, mode, apiLog, apiRet, proc, http>>

\* The request's AbortSignal fires (a notifications/cancelled message).
Abort(i) ==
  /\ inv[i].pc \in {"received", "validated", "streamText", "generateText",
                    "streaming", "yielding", "usage"}
  /\ ~inv[i].aborted
  /\ inv' = [inv EXCEPT ![i].aborted = TRUE]
  /\ UNCHANGED <<sessions, now, mode, apiLog, apiRet, proc, http>>

\* A dispatcher that reports arguments that do not parse as a tool error
\* envelope.
Validate_AsToolError(i) ==
  /\ inv[i].pc = "received"
  /\ inv' = [inv EXCEPT ![i] =
       IF SchemaAccepts(inv[i].tool, inv[i].args)
       THEN [@ EXCEPT !.pc = "validated", !.stream = ParseStream(inv[i].args.stream)]
       ELSE [@ EXCEPT !.pc = "returned", !.outcome = "validation",
                      !.envelope = ErrorEnvelope(inv[i].tool, NoValue)]]
  /\ UNCHANGED <<sessions, now, mode, apiLog, apiRet, proc, http>>

\* The dispatcher parses the arguments against the registered inputSchema
\* and calls the tool callback only when they parse.
Validate(i) ==
  /\ inv[i].pc = "received"
  /\ inv' = [inv EXCEPT ![i] =
       IF SchemaAccepts(inv[i].tool, inv[i].args)
       THEN [@ EXCEPT !.pc = "validated", !.stream = ParseStream(inv[i].args.stream)]
       ELSE [@ EXCEPT !.pc = "rejected", !.outcome = "validation",
                      !.thrown = ValidationError(inv[i].tool, inv[i].args)]]
  /\ UNCHANGED <<sessions, now, mode, apiLog, apiRet, proc, http>>

\* A catch block that appends the text accumulated so far to the message.
Caught_Salvage(slot, e, why) ==
  [slot EXCEPT !.pc = "returned",
               !.thrown = e,
               !.outcome = why,
               !.envelope =
                  [ErrorEnvelope(slot.tool, e) EXCEPT
                     !.content = << [type |-> "text",
                                     text |-> ErrorText(slot.tool, e) \o slot.fullText] >>]]

\* A catch block that calls the provider once more before it gives up.
Caught_Retries(slot, e, why) ==
  IF why # "cancelled" /\ Len(slot.calls) < 2
  THEN [slot EXCEPT !.pc = "generateText",
                    !.calls = Append(@, [slot.calls[1] EXCEPT !.fn = "generateText"])]
  ELSE [slot EXCEPT !.pc = "returned",
                    !.thrown = e,
                    !.outcome = why,
                    !.envelope = ErrorEnvelope(slot.tool, e)]

\* The catch block of a handler: the thrown value becomes the returned envelope.
Caught(slot, e, why) ==
  [slot EXCEPT !.pc = "returned",
               !.thrown = e,
               !.outcome = why,
               !.envelope = ErrorEnvelope(slot.tool, e)]

\* Bookkeeping that records the tool in every open session.
Tracked_Shared(t, sid) ==
  IF TracksSession(t)
  THEN LET S == startSession(sessions, sid, now)
       IN [x \in DOMAIN S |-> [S[x] EXCEPT !.tools = Append(@, t.name)]]
  ELSE sessions

\* The registry after the handler's startSession / trackTool calls.
Tracked(t, sid) ==
  IF TracksSession(t)
  THEN trackTool(startSession(sessions, sid, now), sid, t.name)
  ELSE sessions

\* A template that stamps the prompt once the clock has advanced.
Render_Stamped(t, a) ==
  <<t.server, t.name>> \o a.payload \o (IF now > 0 THEN <<"later">> ELSE <<>>)

\* The prompt of a handler: the tool's template literal with the fields of
\* the arguments interpolated; the stream flag is not part of it.
Render(t, a) == <<t.server, t.name>> \o a.payload

\* What generateWithOptimalStreaming(prompt, maxTokens, useStreaming) passes
\* to the provider: its arguments as they are.
Forwarded(prompt, maxTokens, useStreaming) ==
  [fn |-> IF useStreaming THEN "streamText" ELSE "generateText",
   prompt |-> prompt,
   maxTokens |-> maxTokens]

\* The provider call a handler issues through generateWithOptimalStreaming.
ProviderCall(t, a, useStreaming) ==
  Forwarded(Render(t, a), MaxTokens(t), useStreaming)

\* The handler runs up to its first await: session bookkeeping, the
\* cancellation test, the prompt, and the provider call of
\* generateWithOptimalStreaming.
HandlerStart(i) ==
  /\ inv[i].pc = "validated"
  /\ \E sid \in SessionIds :
       LET t == inv[i].tool
           s1 == [inv[i] EXCEPT !.sessionId = IF TracksSession(t) THEN sid ELSE "none",
                                !.started = TRUE,
                                !.abortedAtStart = inv[i].aborted]
       IN /\ sessions' = Tracked(t, sid)
          /\ inv' = [inv EXCEPT ![i] =
               IF ChecksCancel(t) /\ inv[i].aborted
               THEN Caught(s1, CancelError, "cancelled")
               ELSE [s1 EXCEPT !.pc = IF s1.stream THEN "streamText" ELSE "generateText",
                               !.calls = Append(@, ProviderCall(t, s1.args, s1.stream))]]
  /\ UNCHANGED <<now, mode, apiLog, apiRet, proc, http>>


\* generateWithOptimalStreaming returned `result`: the handler reads the
\* session metrics and returns its success envelope.
Completed(slot, result) ==
  [slot EXCEPT !.pc = "returned",
               !.outcome = "success",
               !.result = result,
               !.hasResult = TRUE,
               !.envelope = SuccessEnvelope(slot.tool, result,
                               getMetrics(sessions, slot.sessionId, now))]

\* `await streamText(...)` resolves: fullText = "", chunks = [].
StreamTextResolve(i) ==
  /\ inv[i].pc = "streamText"
  /\ inv' = [inv EXCEPT ![i] = [@ EXCEPT !.pc = "streaming",
                                         !.fullText = <<>>,
                                         !.chunks = <<>>]]
  /\ UNCHANGED <<sessions, now, mode, apiLog, apiRet, proc, http>>

\* `await streamText(...)` throws.
StreamTextReject(i) ==
  /\ inv[i].pc = "streamText"
  /\ \E e \in ProviderErrors :
       inv' = [inv EXCEPT ![i] = Caught(@, e, "call")]
  /\ UNCHANGED <<sessions, now, mode, apiLog, apiRet, proc, http>>

\* The fragments the provider's script can emit as fragment number k: any
\* fragment for the first MaxLen ones, and in the long mode a fixed
\* alternation up to LongLen fragments. With two generations side by side the
\* script allows any fragment for the first ConcLen ones ("pair"), or is the
\* alternation from the first fragment on ("fixed").
Emittable(k) ==
  CASE mode = "free" -> IF k <= MaxLen THEN Fragments ELSE {}
    [] mode = "pair" -> IF k <= ConcLen THEN Fragments ELSE {}
    [] mode = "fixed" -> IF k <= LongLen THEN {CycleFragment(k)} ELSE {}
    [] OTHER -> IF k <= MaxLen THEN Fragments
                ELSE IF k <= LongLen THEN {CycleFragment(k)} ELSE {}

\* A fold that puts each new fragment in front of the text.
Accumulate_Prepend(slot, textPart) ==
  [slot EXCEPT !.fullText = textPart \o @,
               !.chunks = Append(@, textPart)]

\* The loop body after textPart arrived: fullText += textPart and
\* chunks.push(textPart).
Accumulate(slot, textPart) ==
  [slot EXCEPT !.fullText = @ \o textPart,
               !.chunks = Append(@, textPart)]

\* A yield test that is one fragment late.
YieldDue_Late(chunks) == Len(chunks) % YieldEvery = 1

\* chunks.length % 100 === 0
YieldDue(chunks) == Len(chunks) % YieldEvery = 0

\* One iteration of `for await (const textPart of result.textStream)`.
NextFragment(i) ==
  /\ inv[i].pc = "streaming"
  /\ \E textPart \in Emittable(Len(inv[i].emitted) + 1) :
       LET s1 == Accumulate(inv[i], textPart)
           s2 == [s1 EXCEPT !.emitted = Append(@, textPart)]
       IN inv' = [inv EXCEPT ![i] =
            IF YieldDue(s2.chunks)
            THEN [s2 EXCEPT !.pc = "yielding",
                            !.yieldAt = Append(@, Len(s2.emitted))]
            ELSE s2]
  /\ UNCHANGED <<sessions, now, mode, apiLog, apiRet, proc, http>>

\* The setImmediate callback runs and the loop goes on.
YieldResume(i) ==
  /\ inv[i].pc = "yielding"
  /\ inv' = [inv EXCEPT ![i].pc = "streaming"]
  /\ UNCHANGED <<sessions, now, mode, apiLog, apiRet, proc, http>>

\* The text stream is exhausted: the function awaits result.usage.
StreamEnd(i) ==
  /\ inv[i].pc = "streaming"
  /\ inv' = [inv EXCEPT ![i].pc = "usage"]
  /\ UNCHANGED <<sessions, now, mode, apiLog, apiRet, proc, http>>

\* The text stream throws while being iterated.
StreamFail(i) ==
  /\ inv[i].pc = "streaming"
  /\ \E e \in ProviderErrors :
       inv' = [inv EXCEPT ![i] = Caught(@, e, "stream")]
  /\ UNCHANGED <<sessions, now, mode, apiLog, apiRet, proc, http>>

\* A streaming result that does not report its fragments.
StreamedResult_NoCount(slot, usage) ==
  [text |-> slot.fullText,
   usage |-> usage,
   streamed |-> TRUE,
   chunkCount |-> 0]

\* The record generateWithOptimalStreaming returns in streaming mode.
StreamedResult(slot, usage) ==
  [text |-> slot.fullText,
   usage |-> usage,
   streamed |-> TRUE,
   chunkCount |-> Len(slot.chunks)]

\* The record generateWithOptimalStreaming returns in buffered mode.
BufferedResult(text, usage) ==
  [text |-> text, usage |-> usage, streamed |-> FALSE, chunkCount |-> 0]

\* A usage promise whose value is taken while the loop is still running.
UsageResolve_Early(i) ==
  /\ inv[i].pc \in {"streaming", "usage"}
  /\ \E u \in Usages :
       inv' = [inv EXCEPT ![i] = Completed(@, StreamedResult(@, u))]
  /\ UNCHANGED <<sessions, now, mode, apiLog, apiRet, proc, http>>

\* `await result.usage` resolves.
UsageResolve(i) ==
  /\ inv[i].pc = "usage"
  /\ \E u \in Usages :
       inv' = [inv EXCEPT ![i] = Completed(@, StreamedResult(@, u))]
  /\ UNCHANGED <<sessions, now, mode, apiLog, apiRet, proc, http>>

\* `await result.usage` rejects.
UsageReject(i) ==
  /\ inv[i].pc = "usage"
  /\ \E e \in ProviderErrors :
       inv' = [inv EXCEPT ![i] = Caught(@, e, "usage")]
  /\ UNCHANGED <<sessions, now, mode, apiLog, apiRet, proc, http>>

\* `await generateText(...)` resolves.
GenerateTextResolve(i) ==
  /\ inv[i].pc = "generateText"
  /\ \E text \in Texts, u \in Usages :
       inv' = [inv EXCEPT ![i] = Completed(@, BufferedResult(text, u))]
  /\ UNCHANGED <<sessions, now, mode, apiLog, apiRet, proc, http>>

\* `await generateText(...)` rejects.
GenerateTextReject(i) ==
  /\ inv[i].pc = "generateText"
  /\ \E e \in ProviderErrors :
       inv' = [inv EXCEPT ![i] = Caught(@, e, "call")]
  /\ UNCHANGED <<sessions, now, mode, apiLog, apiRet, proc, http>>

\* ---------------------------------- generateWithOptimalStreaming called directly
\* maxTokens arguments of a direct call.
TokenLimits == {-1, 0, 1, 4000}

\* generateWithOptimalStreaming(prompt, maxTokens, useStreaming) called by
\* code other than a tool handler, up to its first await.
BridgeCall(i) ==
  /\ inv[i].pc = "idle"
  /\ \E prompt \in Payloads, maxTokens \in TokenLimits, useStreaming \in BOOLEAN :
       inv' = [inv EXCEPT ![i] =
         [IdleSlot EXCEPT !.pc = IF useStreaming THEN "streamText" ELSE "generateText",
                          !.stream = useStreaming,
                          !.calls = <<Forwarded(prompt, maxTokens, useStreaming)>>]]
  /\ UNCHANGED <<sessions, now, mode, apiLog, apiRet, proc, http>>

\* ------------------------------------------- performanceTracker called directly
\* The registry of a freshly loaded module: new Map().
EmptyRegistry == [x \in {} |-> [startTime |-> 0, tools |-> <<>>]]

\* toolName arguments.
ToolLabels == {"a", "b"}

\* The entry a call leaves in the log.
Logged(op, id, name) == [op |-> op, id |-> id, name |-> name, at |-> now]

InitTracker ==
  /\ inv = [i \in InvIds |-> [IdleSlot EXCEPT !.pc = "off"]]
  /\ sessions = EmptyRegistry
  /\ now = 0
  /\ mode = "tracker"
  /\ apiLog = <<>>
  /\ apiRet = Undefined
  /\ proc = ServingProcess
  /\ http = NoHttp

\* performanceTracker.startSession(id)
StartSession(id) ==
  /\ Len(apiLog) < MaxCalls
  /\ sessions' = startSession(sessions, id, now)
  /\ apiLog' = Append(apiLog, Logged("startSession", id, "none"))
  /\ apiRet' = Undefined
  /\ UNCHANGED <<inv, now, mode, proc, http>>

\* performanceTracker.trackTool(id, name)
TrackTool(id, name) ==
  /\ Len(apiLog) < MaxCalls
  /\ sessions' = trackTool(sessions, id, name)
  /\ apiLog' = Append(apiLog, Logged("trackTool", id, name))
  /\ apiRet' = Undefined
  /\ UNCHANGED <<inv, now, mode, proc, http>>

\* performanceTracker.getMetrics(id)
GetMetrics(id) ==
  /\ Len(apiLog) < MaxCalls
  /\ apiLog' = Append(apiLog, Logged("getMetrics", id, "none"))
  /\ apiRet' = getMetrics(sessions, id, now)
  /\ UNCHANGED <<inv, sessions, now, mode, proc, http>>

\* ---------------------------------------------------------------- start-up
\* A process about to start from any entry point, with or without the key.
InitProcess ==
  /\ inv = [i \in InvIds |-> [IdleSlot EXCEPT !.pc = "off"]]
  /\ sessions = EmptyRegistry
  /\ now = 0
  /\ mode = "free"
  /\ apiLog = <<>>
  /\ apiRet = Undefined
  /\ \E entry \in Entries, key \in {"unset", "k"} : proc = NewProcess(entry, key)
  /\ http = NoHttp

\* The top of the entry module runs. src/index.ts and config/vercel.ts
\* (imported by src/server/index.ts) exit with status 1 when V0_API_KEY is
\* falsy; src/http-server.ts tests nothing and calls server.listen.
LoadEntry ==
  /\ proc.status = "loading"
  /\ proc' = IF proc.entry = "http-server.ts"
             THEN [proc EXCEPT !.status = "running", !.accepting = TRUE]
             ELSE IF proc.key # "k"
                  THEN [proc EXCEPT !.status = "exited", !.exitCode = 1]
                  ELSE [proc EXCEPT !.status = "loaded"]
  /\ UNCHANGED <<inv, sessions, now, mode, apiLog, apiRet, http>>

\* The registrations: initializeServer() in startServer, the top-level
\* server.tool / server.resource / server.prompt calls in src/index.ts.
RegisterAll ==
  /\ proc.status = "loaded"
  /\ proc' = [proc EXCEPT !.status = "registered",
                          !.tools = ToolsOf(proc.entry),
                          !.resources = ResourcesOf(proc.entry),
                          !.prompts = PromptsOf(proc.entry)]
  /\ UNCHANGED <<inv, sessions, now, mode, apiLog, apiRet, http>>

\* await server.connect(new StdioServerTransport())
ConnectStdio ==
  /\ proc.status = "registered"
  /\ proc' = [proc EXCEPT !.status = "running", !.accepting = TRUE]
  /\ UNCHANGED <<inv, sessions, now, mode, apiLog, apiRet, http>>

\* A tools/list, resources/list and prompts/list round on the stdio transport.
ListCapabilities ==
  /\ proc.status = "running"
  /\ proc.entry \in {"index.ts", "server/index.ts"}
  /\ ~proc.listed
  /\ proc' = [proc EXCEPT !.listed = TRUE,
                          !.listing = [tools |-> proc.tools,
                                       resources |-> proc.resources,
                                       prompts |-> proc.prompts]]
  /\ UNCHANGED <<inv, sessions, now, mode, apiLog, apiRet, http>>

\* resources/read of v0://performance.
ReadPerformance ==
  /\ proc.status = "running"
  /\ "performance-metrics" \in proc.resources
  /\ ~proc.snapshotRead
  /\ proc' = [proc EXCEPT !.snapshotRead = TRUE,
                          !.snapshot = AvailableTools(proc.entry)]
  /\ UNCHANGED <<inv, sessions, now, mode, apiLog, apiRet, http>>

\* --------------------------------------------------------- the HTTP wrapper
\* An answered request.
Answered(req, status, kind, code) ==
  [req EXCEPT !.phase = "done", !.status = status, !.kind = kind, !.code = code]

\* parseConfig: a V0_API_KEY or v0ApiKey query parameter is written to
\* process.env, whatever its value.
ParseConfig(key, keyParam) == IF keyParam = "absent" THEN key ELSE keyParam

\* A continuation of getMcpServer is waiting on the microtask queue: no I/O
\* event is delivered before it has run.
MicrotaskPending == \E r \in ReqIds : http.req[r].phase = "connecting"

\* The request callback of createServer for a request to /mcp: parseConfig,
\* then the answer to a GET, or the body listeners of a POST.
HttpArrive(r) ==
  /\ proc.entry = "http-server.ts"
  /\ proc.status = "running"
  /\ ~MicrotaskPending
  /\ http.req[r].phase = "none"
  /\ \E method \in {"GET", "POST"}, keyParam \in {"absent", "k", "empty"} :
       \E body \in (IF method = "POST"
                    THEN {"tools/call", "tools/list", "other", "malformed"}
                    ELSE {"none"}) :
         LET req == [NoRequest EXCEPT !.method = method,
                                      !.keyParam = keyParam,
                                      !.body = body]
         IN /\ proc' = [proc EXCEPT !.key = ParseConfig(proc.key, keyParam)]
            /\ http' = [http EXCEPT !.req[r] =
                 IF method = "GET"
                 THEN Answered(req, 200, "capabilities", 0)
                 ELSE [req EXCEPT !.phase = "receiving"]]
  /\ UNCHANGED <<inv, sessions, now, mode, apiLog, apiRet>>

\* The 'end' listener of a POST: JSON.parse, the key test for tools/call,
\* handleListTools up to the first await of getMcpServer for tools/list, the
\* fixed answer for everything else.
HttpBodyEnd(r) ==
  /\ proc.status = "running"
  /\ ~MicrotaskPending
  /\ http.req[r].phase = "receiving"
  /\ LET req == [http.req[r] EXCEPT !.keyAtEnd = proc.key]
     IN http' = [http EXCEPT !.req[r] =
          CASE req.body = "malformed" -> Answered(req, 400, "error", -32700)
            [] req.body = "tools/call" /\ proc.key # "k" ->
                 Answered(req, 400, "error", -32602)
            [] req.body = "tools/list" /\ http.mcpServer = "null" ->
                 [req EXCEPT !.phase = "importing"]
            [] req.body = "tools/list" /\ http.mcpServer # "null" ->
                 [Answered(req, 200, "toolsList", 0) EXCEPT
                    !.gotServer = TRUE, !.connectedThen = http.connected]
            [] OTHER -> Answered(req, 200, "received", 0)]
  /\ UNCHANGED <<inv, sessions, now, mode, apiLog, apiRet, proc>>

\* `await import('./server/index.js')` resolves in getMcpServer. The first
\* import runs config/vercel.ts, which exits when V0_API_KEY is falsy; then
\* mcpServer = server and mcpServer.connect(transport) is called.
ImportResolve(r) ==
  /\ proc.status = "running"
  /\ http.req[r].phase = "importing"
  /\ IF ~http.moduleLoaded /\ proc.key # "k"
     THEN /\ proc' = [proc EXCEPT !.status = "exited", !.exitCode = 1,
                                  !.accepting = FALSE]
          /\ http' = http
     ELSE /\ proc' = proc
          /\ http' = [http EXCEPT !.moduleLoaded = TRUE,
                                  !.mcpServer = "server",
                                  !.connects = @ + 1,
                                  !.req[r].phase = "connecting"]
  /\ UNCHANGED <<inv, sessions, now, mode, apiLog, apiRet>>

\* `await mcpServer.connect(transport)` resolves: getMcpServer returns the
\* server and handleListTools its list.
ConnectResolve(r) ==
  /\ proc.status = "running"
  /\ http.req[r].phase = "connecting"
  /\ http' = [http EXCEPT !.connected = TRUE,
                          !.req[r] = [Answered(@, 200, "toolsList", 0) EXCEPT
                                        !.gotServer = TRUE,
                                        !.connectedThen = TRUE]]
  /\ UNCHANGED <<inv, sessions, now, mode, apiLog, apiRet, proc>>

\* ---------------------------------------------------------- specifications
\* Every request, with generations of at most MaxLen fragments: too short for
\* a yield to become due, so YieldResume is an action of SpecLong only.
Next ==
  \/ Tick
  \/ \E i \in InvIds :
       \/ Receive(i, Requests)
       \/ Abort(i)
       \/ Validate(i)
       \/ HandlerStart(i)
       \/ StreamTextResolve(i)
       \/ StreamTextReject(i)
       \/ NextFragment(i)
       \/ StreamEnd(i)
       \/ StreamFail(i)
       \/ UsageResolve(i)
       \/ UsageReject(i)
       \/ GenerateTextResolve(i)
       \/ GenerateTextReject(i)

Spec == Init /\ [][Next]_vars

\* A long generation: one streaming request, the provider emitting up to
\* LongLen fragments.
NextLong ==
  \E i \in InvIds :
    \/ Receive(i, LongRequests)
    \/ Validate(i)
    \/ HandlerStart(i)
    \/ StreamTextResolve(i)
    \/ NextFragment(i)
    \/ YieldResume(i)
    \/ StreamEnd(i)
    \/ StreamFail(i)
    \/ UsageResolve(i)
    \/ UsageReject(i)

SpecLong == InitLong /\ [][NextLong]_vars

\* A provider that responds: each awaited promise settles and the fragment
\* stream, of at most MaxLen fragments, ends or throws. The continuation of
\* the handler runs in the same step as the settlement it awaits.
ProviderResponds ==
  \A i \in InvIds :
    /\ WF_vars(StreamTextResolve(i) \/ StreamTextReject(i))
    /\ WF_vars(NextFragment(i) \/ StreamEnd(i) \/ StreamFail(i))
    /\ WF_vars(UsageResolve(i) \/ UsageReject(i))
    /\ WF_vars(GenerateTextResolve(i) \/ GenerateTextReject(i))

SpecFair == Init /\ [][Next]_vars /\ ProviderResponds

\* A direct call of generateWithOptimalStreaming and its fragment loop.
NextBridge ==
  \E i \in InvIds :
    \/ BridgeCall(i)
    \/ StreamTextResolve(i)
    \/ NextFragment(i)
    \/ StreamEnd(i)

SpecBridge == Init /\ [][NextBridge]_vars

\* The way of a request up to the provider call, for argument maps with and
\* without undeclared keys.
NextValidate ==
  \E i \in InvIds :
    \/ Receive(i, WideRequests)
    \/ Validate(i)
    \/ HandlerStart(i)

SpecValidate == Init /\ [][NextValidate]_vars

\* A process from its start: the stdio servers and the HTTP wrapper.
NextProcess ==
  \/ LoadEntry
  \/ RegisterAll
  \/ ConnectStdio
  \/ ListCapabilities
  \/ ReadPerformance
  \/ \E r \in ReqIds :
       \/ HttpArrive(r)
       \/ HttpBodyEnd(r)
       \/ ImportResolve(r)
       \/ ConnectResolve(r)

SpecProcess == InitProcess /\ [][NextProcess]_vars

\* Two invocations in flight at once, each a buffered request.
InitPair == InitWith("free", InvIds)

NextPair ==
  \/ Tick
  \/ \E i \in InvIds :
       \/ Receive(i, PairRequests)
       \/ Validate(i)
       \/ HandlerStart(i)
       \/ GenerateTextResolve(i)
       \/ GenerateTextReject(i)

SpecPair == InitPair /\ [][NextPair]_vars

\* Two successful invocations in flight at once, interleaved at every await:
\* two short generations, or a long streamed one beside a buffered one.
InitConc ==
  \E m \in {"pair", "fixed"} : InitWith(m, InvIds)

NextConc ==
  \E i \in InvIds :
    \/ Receive(i, ConcRequests(i, mode))
    \/ Validate(i)
    \/ HandlerStart(i)
    \/ StreamTextResolve(i)
    \/ NextFragment(i)
    \/ YieldResume(i)
    \/ StreamEnd(i)
    \/ UsageResolve(i)
    \/ GenerateTextResolve(i)

SpecConc == InitConc /\ [][NextConc]_vars

\* Any sequence of at most MaxCalls calls on the tracker, the clock advancing
\* in between.
NextTracker ==
  \/ Tick
  \/ \E id \in SessionIds :
       \/ StartSession(id)
       \/ GetMetrics(id)
       \/ \E name \in ToolLabels : TrackTool(id, name)

SpecTracker == InitTracker /\ [][NextTracker]_vars


\* ------------------------------------------------------------- properties
RECURSIVE Concat(_)
\* f1 ++ f2 ++ ... ++ fn
Concat(F) == IF F = <<>> THEN <<>> ELSE Head(F) \o Concat(Tail(F))

\* The invocation returned a streaming generation result.
StreamedDone(i) == inv[i].hasResult /\ inv[i].result.streamed

\* C1: the text a streaming generation returns is the concatenation of the
\* fragments the provider emitted, in emission order, however many yields
\* to the event loop happened while they were consumed.
C1_TextIsConcatenation ==
  \A i \in InvIds :
    StreamedDone(i) => inv[i].result.text = Concat(inv[i].emitted)

\* A generation of LongLen fragments that started with two different
\* fragments and yielded at least twice has returned.
C1_Witness ==
  \E i \in InvIds :
    /\ StreamedDone(i)
    /\ Len(inv[i].emitted) = LongLen
    /\ inv[i].emitted[1] # inv[i].emitted[2]
    /\ Len(inv[i].yieldAt) >= 2

\* C2 as stated: chunkCount is 0 exactly when streamed is false.
C2_Original ==
  \A i \in InvIds :
    inv[i].hasResult =>
      ((inv[i].result.chunkCount = 0) <=> (inv[i].result.streamed = FALSE))

\* C2 amended: chunkCount is 0 exactly when streamed is false or the stream
\* ended without emitting a fragment; a streaming result always has
\* streamed true, an empty stream included.
C2_CountZeroIffBufferedOrEmpty ==
  \A i \in InvIds :
    inv[i].hasResult =>
      /\ (inv[i].result.chunkCount = 0)
           <=> (inv[i].result.streamed = FALSE \/ inv[i].emitted = <<>>)
      /\ inv[i].result.streamed = inv[i].stream

\* A streaming generation whose stream emitted nothing has returned.
C2_Witness ==
  \E i \in InvIds :
    /\ StreamedDone(i)
    /\ inv[i].emitted = <<>>
    /\ inv[i].result.chunkCount = 0

\* C3: the generation yields once after every YieldEvery-th fragment and
\* before the next fragment is consumed, floor(n / YieldEvery) times for n
\* fragments; with 250 fragments it yields after fragments 100 and 200 and
\* returns chunkCount 250.
C3_YieldEveryHundred ==
  \A i \in InvIds :
    LET n == Len(inv[i].emitted)
        y == inv[i].yieldAt
    IN /\ \A k \in 1..Len(y) : y[k] = YieldEvery * k
       /\ Len(y) = n \div YieldEvery
       /\ inv[i].pc = "yielding" => (n > 0 /\ n % YieldEvery = 0)
       /\ (StreamedDone(i) /\ n = 250) =>
            (y = <<100, 200>> /\ inv[i].result.chunkCount = 250)

\* A generation of 250 fragments has returned after two yields.
C3_Witness ==
  \E i \in InvIds :
    /\ StreamedDone(i)
    /\ Len(inv[i].emitted) = 250
    /\ Len(inv[i].yieldAt) = 2


\* Something was thrown inside the handler of invocation i.
Threw(i) == inv[i].outcome \in {"cancelled", "call", "stream", "usage"}

\* C4 as stated: when anything throws inside a handler, the handler returns
\* an isError envelope whose single text entry is the error's message.
C4_Original ==
  \A i \in InvIds :
    Threw(i) =>
      /\ inv[i].pc = "returned"
      /\ inv[i].envelope.isError = "true"
      /\ Len(inv[i].envelope.content) = 1
      /\ inv[i].envelope.content[1].type = "text"
      /\ inv[i].envelope.content[1].text = inv[i].thrown.message

\* C4 amended: when anything throws inside a handler, the handler does not
\* rethrow; it returns an isError envelope whose single text entry is the
\* tool's fixed "Error ...: " prefix followed by the message of the thrown
\* Error, or by "Unknown error" when the thrown value is not an Error.
C4_ErrorEnvelope ==
  \A i \in InvIds :
    Threw(i) =>
      LET c == inv[i].envelope.content
          pre == ErrorPrefix(inv[i].tool)
      IN /\ inv[i].pc = "returned"
         /\ inv[i].envelope.isError = "true"
         /\ Len(c) = 1
         /\ c[1].type = "text"
         /\ SubSeq(c[1].text, 1, Len(pre)) = pre
         /\ SubSeq(c[1].text, Len(pre) + 1, Len(c[1].text))
              = IF inv[i].thrown.isErrorObject
                THEN inv[i].thrown.message
                ELSE <<"Unknown error">>

\* A handler returned after its provider threw a value that is not an Error.
C4_Witness ==
  \E i \in InvIds :
    /\ inv[i].pc = "returned"
    /\ inv[i].outcome = "stream"
    /\ ~inv[i].thrown.isErrorObject
    /\ inv[i].envelope.isError = "true"

\* The tokens of the fragments accumulated by invocation i.
AccumulatedTokens(i) ==
  UNION {{inv[i].emitted[k][j] : j \in 1..Len(inv[i].emitted[k])} :
           k \in 1..Len(inv[i].emitted)}

\* The tokens of the text entries of invocation i's envelope.
ContentTokens(i) ==
  UNION {{inv[i].envelope.content[k].text[j] :
            j \in 1..Len(inv[i].envelope.content[k].text)} :
           k \in 1..Len(inv[i].envelope.content)}

\* C5: when the fragment stream fails after k fragments were accumulated,
\* or completes and the usage statistics fail, the result has isError set
\* and nothing of the accumulated text is in its content or metadata.
C5_NoPartialText ==
  \A i \in InvIds :
    inv[i].outcome \in {"stream", "usage"} =>
      /\ inv[i].envelope.isError = "true"
      /\ AccumulatedTokens(i) \cap ContentTokens(i) = {}
      /\ DOMAIN inv[i].envelope.meta = {}

\* The stream failed on fragment 50, after 49 fragments were accumulated.
C5_Witness ==
  \E i \in InvIds :
    /\ inv[i].outcome = "stream"
    /\ Len(inv[i].emitted) = 49
    /\ inv[i].fullText # <<>>
    /\ inv[i].envelope.isError = "true"

C7_CancelledAtStart ==
  \A i \in InvIds :
    (inv[i].started /\ inv[i].abortedAtStart) =>
      /\ inv[i].calls = <<>>
      /\ inv[i].outcome = "cancelled"
      /\ inv[i].thrown = CancelError

\* C8: an invocation that ends in a validation or a cancellation failure
\* leaves the session registry as it was and issues no provider call.
C8_FailureHasNoSideEffect ==
  \A i \in InvIds :
    inv[i].outcome \in {"validation", "cancelled"} =>
      /\ sessions = inv[i].sessionsBefore
      /\ inv[i].calls = <<>>

\* C9: every envelope a handler returns has at least one content entry, and
\* every entry is of type text with a string as its text.
C9_ContentNonEmpty ==
  \A i \in InvIds :
    inv[i].pc = "returned" =>
      LET c == inv[i].envelope.content
      IN /\ Len(c) >= 1
         /\ \A k \in 1..Len(c) :
              /\ c[k].type = "text"
              /\ DOMAIN c[k].text = 1..Len(c[k].text)

\* A buffered generation returned the empty text and the handler returned.
C9_Witness ==
  \E i \in InvIds :
    /\ inv[i].pc = "returned"
    /\ inv[i].outcome = "success"
    /\ inv[i].result.text = <<>>
    /\ Len(inv[i].envelope.content) = 1

\* C10: every successful invocation returns metadata with the tool name,
\* streamed, chunkCount, the performance metrics and the usage, streamed
\* and chunkCount being those of the generation result; with stream = false
\* it has streamed false, chunkCount 0 and no error flag.
C10_SuccessMetadata ==
  \A i \in InvIds :
    inv[i].outcome = "success" =>
      LET m == inv[i].envelope.meta
      IN /\ {"streamed", "chunkCount", "performance_metrics", "usage"} \subseteq DOMAIN m
         /\ ~m.performance_metrics.isNull
         /\ \E k \in 1..Len(m.performance_metrics.tools) :
              m.performance_metrics.tools[k] = inv[i].tool.name
         /\ m.streamed = inv[i].result.streamed
         /\ m.chunkCount = inv[i].result.chunkCount
         /\ m.usage = inv[i].result.usage
         /\ ~inv[i].stream =>
              (~m.streamed /\ m.chunkCount = 0 /\ inv[i].envelope.isError # "true")

\* ---- performanceTracker
LastCall == apiLog[Len(apiLog)]

\* startSession(id) is among the first n calls of the log.
StartedWithin(n, id) ==
  \E k \in 1..n : apiLog[k].op = "startSession" /\ apiLog[k].id = id

RECURSIVE TrackedSince(_, _)
\* The names passed to trackTool(id, _) among the first n calls of the log,
\* after the last startSession(id) among them, in call order.
TrackedSince(n, id) ==
  IF n = 0 THEN <<>>
  ELSE IF apiLog[n].id = id /\ apiLog[n].op = "startSession" THEN <<>>
  ELSE IF apiLog[n].id = id /\ apiLog[n].op = "trackTool"
       THEN Append(TrackedSince(n - 1, id), apiLog[n].name)
       ELSE TrackedSince(n - 1, id)

\* C11: after startSession(id) and k trackTool(id, t1..tk) calls with no
\* startSession(id) in between, whatever is done to other ids, getMetrics(id)
\* returns toolsUsed = k, tools = <<t1..tk>> in call order and duration >= 0.
C11_MetricsMatchHistory ==
  (/\ apiLog # <<>>
   /\ LastCall.op = "getMetrics"
   /\ StartedWithin(Len(apiLog), LastCall.id))
  => /\ ~apiRet.isNull
     /\ apiRet.toolsUsed = Len(TrackedSince(Len(apiLog), LastCall.id))
     /\ apiRet.tools = TrackedSince(Len(apiLog), LastCall.id)
     /\ apiRet.duration >= 0
     /\ apiRet.duration = LastCall.at - apiLog[CHOOSE k \in 1..Len(apiLog) :
                                        /\ apiLog[k].op = "startSession"
                                        /\ apiLog[k].id = LastCall.id
                                        /\ \A j \in (k + 1)..Len(apiLog) :
                                             ~(apiLog[j].op = "startSession"
                                               /\ apiLog[j].id = LastCall.id)].at

\* Two different names tracked after the start, and the clock advanced.
C11_Witness ==
  /\ Len(apiLog) = 4
  /\ LastCall.op = "getMetrics"
  /\ apiLog[1].op = "startSession" /\ apiLog[1].id = LastCall.id
  /\ apiLog[2].op = "trackTool" /\ apiLog[2].id = LastCall.id
  /\ apiLog[3].op = "trackTool" /\ apiLog[3].id = LastCall.id
  /\ apiLog[2].name # apiLog[3].name
  /\ ~apiRet.isNull
  /\ apiRet.toolsUsed = 2
  /\ apiRet.duration > 0

\* C12: getMetrics on an existing session with no tracked tool returns
\* toolsUsed = 0 without throwing, and no division by a zero tool count is
\* performed for averageToolTime.
C12_ZeroToolsGuarded ==
  (/\ apiLog # <<>>
   /\ LastCall.op = "getMetrics"
   /\ StartedWithin(Len(apiLog), LastCall.id)
   /\ TrackedSince(Len(apiLog), LastCall.id) = <<>>)
  => /\ ~apiRet.isNull
     /\ apiRet.toolsUsed = 0
     /\ apiRet.averageToolTime.den # 0

\* The step is a startSession(id) call.
Restarts(id) ==
  /\ Len(apiLog') = Len(apiLog) + 1
  /\ apiLog'[Len(apiLog')].op = "startSession"
  /\ apiLog'[Len(apiLog')].id = id

\* toolsUsed as getMetrics(id) would report it, before and after the step.
ToolsUsed(id) == getMetrics(sessions, id, now).toolsUsed
ToolsUsedNext(id) == getMetrics(sessions', id, now').toolsUsed

\* C13 as stated: once a session exists, no call on the tracker makes the
\* length of its tool history decrease.
C13_Original ==
  [][\A id \in SessionIds :
       id \in DOMAIN sessions =>
         /\ id \in DOMAIN sessions'
         /\ ToolsUsedNext(id) >= ToolsUsed(id)]_vars

\* C13: once a session exists it stays, and the length of its tool history
\* never decreases, except that startSession on that very id sets it to 0.
C13_MonotoneBetweenStarts ==
  [][\A id \in SessionIds :
       id \in DOMAIN sessions =>
         /\ id \in DOMAIN sessions'
         /\ IF Restarts(id)
            THEN ToolsUsedNext(id) = 0
            ELSE ToolsUsedNext(id) >= ToolsUsed(id)]_vars

\* A session with two tools survives the start of another session.
C13_Witness ==
  /\ Len(apiLog) = 4
  /\ LastCall.op = "startSession"
  /\ \E id \in SessionIds \ {LastCall.id} :
       /\ id \in DOMAIN sessions
       /\ getMetrics(sessions, id, now).toolsUsed = 2

\* C14: startSession(id) on an existing id replaces the entry: the start time
\* becomes the current time, the tool history becomes empty, and the entry of
\* every other session is unchanged.
C14_RestartReplacesEntry ==
  [][\A id \in SessionIds :
       (Restarts(id) /\ id \in DOMAIN sessions) =>
         /\ DOMAIN sessions' = DOMAIN sessions
         /\ sessions'[id] = [startTime |-> now, tools |-> <<>>]
         /\ \A other \in DOMAIN sessions \ {id} :
              sessions'[other] = sessions[other]]_vars

\* At a later time, a session is started again after a tool was tracked on it.
C14_Witness ==
  /\ Len(apiLog) = 4
  /\ LastCall.op = "startSession"
  /\ LastCall.at > 0
  /\ \E k \in 1..3 : /\ apiLog[k].op = "trackTool"
                     /\ apiLog[k].id = LastCall.id
                     /\ StartedWithin(k - 1, LastCall.id)
  /\ sessions[LastCall.id] = [startTime |-> LastCall.at, tools |-> <<>>]

\* The step is a trackTool(id, name) call.
Tracks(id, name) ==
  /\ Len(apiLog') = Len(apiLog) + 1
  /\ apiLog'[Len(apiLog')].op = "trackTool"
  /\ apiLog'[Len(apiLog')].id = id
  /\ apiLog'[Len(apiLog')].name = name

\* C15: trackTool(id, name) on an id without a session returns normally and
\* leaves the registry as it was; on an existing session it appends name as
\* the last element of that session's history and changes nothing else.
C15_TrackToolFrame ==
  [][\A id \in SessionIds, name \in ToolLabels :
       Tracks(id, name) =>
         /\ apiRet' = Undefined
         /\ DOMAIN sessions' = DOMAIN sessions
         /\ IF id \notin DOMAIN sessions
            THEN sessions' = sessions
            ELSE /\ sessions'[id].tools = Append(sessions[id].tools, name)
                 /\ sessions'[id].startTime = sessions[id].startTime
                 /\ \A other \in DOMAIN sessions \ {id} :
                      sessions'[other] = sessions[other]]_vars

\* trackTool was called on an id that never had a session, and on a session
\* that already held a tool.
C15_Witness ==
  /\ Len(apiLog) = 4
  /\ \E k \in 1..4 : /\ apiLog[k].op = "trackTool"
                     /\ ~StartedWithin(k, apiLog[k].id)
  /\ \E id \in DOMAIN sessions : Len(sessions[id].tools) = 2
  /\ \E id \in SessionIds : id \notin DOMAIN sessions

\* ---- the life of an invocation
\* The state of an invocation in the terms of the specification. Validating
\* is passed within the Validate step and Rendering within the HandlerStart
\* step; Requesting lasts from the provider call to the handler's return.
Phase(slot) ==
  CASE slot.pc \in {"off", "idle"} -> "Idle"
    [] slot.pc = "received" -> "Received"
    [] slot.pc = "rejected" -> "Rejected"
    [] slot.pc = "validated" -> "Validated"
    [] slot.pc \in {"streamText", "generateText", "streaming", "yielding", "usage"}
         -> "Requesting"
    [] slot.pc = "returned" /\ slot.outcome = "success" -> "Succeeded"
    [] slot.pc = "returned" /\ slot.outcome # "success" -> "Failed"

\* The moves of the specification's state machine, the passing states left out.
SpecMoves ==
  {<<"Idle", "Received">>,
   <<"Received", "Rejected">>, <<"Received", "Validated">>,
   <<"Validated", "Requesting">>,
   <<"Requesting", "Succeeded">>, <<"Requesting", "Failed">>}

\* A step leaves the invocation where it is or makes one of the moves.
Follows(moves) ==
  \A i \in InvIds :
    \/ Phase(inv'[i]) = Phase(inv[i])
    \/ <<Phase(inv[i]), Phase(inv'[i])>> \in moves

\* C16 as stated: an invocation only moves Received -> Rejected | Validated
\* and Validated -> Requesting -> Succeeded | Failed, so that Failed is
\* entered from Requesting only and no terminal state is left.
C16_Original == [][Follows(SpecMoves)]_vars

\* C16: as above, except that a handler that finds its signal aborted fails
\* straight from Validated, before rendering and before any provider call.
C16_Transitions ==
  [][/\ Follows(SpecMoves \cup {<<"Validated", "Failed">>})
     /\ \A i \in InvIds :
          (Phase(inv[i]) = "Validated" /\ Phase(inv'[i]) = "Failed") =>
             /\ inv'[i].outcome = "cancelled"
             /\ inv'[i].calls = <<>>
             /\ ChecksCancel(inv[i].tool)]_vars

\* A cancelled invocation that failed without a provider call.
C16_Witness ==
  \E i \in InvIds : /\ Phase(inv[i]) = "Failed"
                    /\ inv[i].outcome = "cancelled"
                    /\ inv[i].calls = <<>>
                    /\ inv[i].envelope = ErrorEnvelope(inv[i].tool, CancelError)

\* C17: an invocation issues at most one provider call, a streamText or a
\* generateText as its stream flag says, and once the provider has failed no
\* further call is made for it.
C17_AtMostOneProviderCall ==
  [][\A i \in InvIds :
       /\ Len(inv'[i].calls) <= 1
       /\ \A k \in 1..Len(inv'[i].calls) :
            inv'[i].calls[k].fn =
              (IF inv'[i].stream THEN "streamText" ELSE "generateText")
       /\ Threw(i) => inv'[i].calls = inv[i].calls]_vars

\* A failure of the provider call or of its usage promise has been returned
\* after a single call.
C17_Witness ==
  \E i \in InvIds :
    /\ inv[i].pc = "returned"
    /\ inv[i].outcome \in {"call", "usage"}
    /\ Len(inv[i].calls) = 1
    /\ inv[i].thrown \in ProviderErrors

\* The signal of invocation i fired after its provider call had begun.
AbortedInFlight(i) ==
  inv[i].started /\ inv[i].aborted /\ ~inv[i].abortedAtStart

\* C18: a cancellation that arrives after the provider call has begun changes
\* nothing but the signal: every fragment emitted is still consumed, and the
\* handler returns the success envelope with the full text, or the provider's
\* failure, as it would have without the cancellation.
C18_AbortInFlightIgnored ==
  /\ [](\A i \in InvIds :
          AbortedInFlight(i) =>
            /\ inv[i].outcome # "cancelled"
            /\ inv[i].thrown # CancelError
            /\ inv[i].chunks = inv[i].emitted
            /\ inv[i].fullText = Concat(inv[i].emitted)
            /\ (inv[i].pc = "returned" /\ inv[i].outcome = "success") =>
                 /\ inv[i].result.streamed =>
                      /\ inv[i].result.text = Concat(inv[i].emitted)
                      /\ inv[i].result.chunkCount = Len(inv[i].emitted)
                 /\ inv[i].envelope.isError = "absent"
                 /\ inv[i].envelope.content[1].text = inv[i].result.text
            /\ (inv[i].pc = "returned" /\ Threw(i)) =>
                 /\ inv[i].thrown \in ProviderErrors
                 /\ inv[i].envelope = ErrorEnvelope(inv[i].tool, inv[i].thrown))
  /\ [][\A i \in InvIds :
          (inv[i].started /\ inv'[i].aborted # inv[i].aborted) =>
             /\ inv'[i] = [inv[i] EXCEPT !.aborted = TRUE]
             /\ sessions' = sessions]_vars

\* A handler that tests the signal at its start was cancelled while its
\* stream was running and returned all three fragments.
C18_Witness ==
  \E i \in InvIds :
    /\ AbortedInFlight(i)
    /\ ChecksCancel(inv[i].tool)
    /\ inv[i].pc = "returned"
    /\ inv[i].outcome = "success"
    /\ Len(inv[i].emitted) = 3
    /\ inv[i].result.text = Concat(inv[i].emitted)

\* The provider settled the call of invocation i: a result with its usage,
\* or a thrown value.
ProviderSettled(slot) ==
  \/ slot.outcome = "success" /\ slot.hasResult /\ slot.result.usage \in Usages
  \/ slot.outcome \in {"call", "stream", "usage"} /\ slot.thrown \in ProviderErrors

\* C19: an invocation that has entered the provider call returns an envelope
\* if and only if the provider completes or fails: with a provider that
\* responds it always returns, and it leaves the provider call by no other
\* step, the passing of time included, so that it stays pending for as long as
\* the provider is silent.
C19_ReturnsIffProviderSettles ==
  /\ \A i \in InvIds : (Phase(inv[i]) = "Requesting") ~> (inv[i].pc = "returned")
  /\ [][\A i \in InvIds :
          /\ (Phase(inv[i]) = "Requesting" /\ Phase(inv'[i]) # "Requesting") =>
               (inv'[i].pc = "returned" /\ ProviderSettled(inv'[i]))
          /\ now' # now => inv'[i] = inv[i]]_vars

\* The clock ran out while the provider call was pending, and the invocation
\* returned once the stream had ended.
C19_Witness ==
  \E i \in InvIds :
    /\ now = MaxTime
    /\ inv[i].pc = "returned"
    /\ inv[i].outcome = "success"
    /\ inv[i].result.streamed
    /\ inv[i].result.chunkCount >= 1
    /\ inv[i].envelope.isError = "absent"

\* ---- prompt rendering
\* Invocation i has passed its prompt to generateWithOptimalStreaming.
Rendered(i) == inv[i].calls # <<>>

C21_UnknownAndMissingRejected ==
  \A i \in InvIds :
    inv[i].pc \notin {"off", "idle", "received"} =>
      /\ inv[i].args.unknown => (inv[i].pc = "rejected" /\ ~inv[i].started)
      /\ inv[i].args.missing # "none" =>
           /\ inv[i].pc = "rejected"
           /\ \E k \in 1..Len(inv[i].thrown.message) :
                inv[i].thrown.message[k] = inv[i].args.missing

C23_NoKeyNoStart ==
  proc.startKey # "k" =>
    /\ ~proc.accepting
    /\ proc.status \in {"loading", "exited"}
    /\ proc.status = "exited" => proc.exitCode # 0

\* C24: a POST to /mcp that carries a tool invocation runs that invocation
\* and answers with its result envelope, and a GET answers with the
\* capability listing without running anything.
C24_PostInvokesTool ==
  \A r \in ReqIds :
    http.req[r].phase = "done" =>
      /\ (http.req[r].method = "POST" /\ http.req[r].body = "tools/call"
          /\ http.req[r].status = 200) =>
           /\ http.req[r].kind = "toolResult"
           /\ \E i \in InvIds : inv[i].started
      /\ http.req[r].method = "GET" =>
           /\ http.req[r].kind = "capabilities"
           /\ \A i \in InvIds : ~inv[i].started

\* C25: available_tools of the performance snapshot are the names of the
\* tools registered on the server that serves it.
C25_SnapshotListsRegisteredTools ==
  proc.snapshotRead => proc.snapshot = proc.tools

\* C26: a started server lists exactly the 6 tools of src/tools, 2 resources
\* and 7 prompts, and accepts no request before they are all registered.
C26_SixTwoSeven ==
  /\ proc.listed =>
       /\ proc.listing.tools = ModularNames
       /\ Cardinality(proc.listing.tools) = 6
       /\ Cardinality(proc.listing.resources) = 2
       /\ Cardinality(proc.listing.prompts) = 7
  /\ proc.accepting =>
       /\ proc.tools = ModularNames
       /\ Cardinality(proc.resources) = 2
       /\ Cardinality(proc.prompts) = 7

\* ---- the end of a stream
\* C27: in streaming mode the usage is awaited only once the fragment loop
\* has ended, the function returns only when that usage has resolved, and the
\* record it returns holds that usage, streamed = TRUE and every fragment.
C27_UsageAfterExhaustion ==
  /\ [](\A i \in InvIds :
          StreamedDone(i) =>
            /\ inv[i].result.usage \in Usages
            /\ inv[i].result.text = Concat(inv[i].emitted)
            /\ inv[i].result.chunkCount = Len(inv[i].emitted))
  /\ [][\A i \in InvIds :
          /\ (inv'[i].pc = "usage" /\ inv[i].pc # "usage") =>
               inv[i].pc = "streaming"
          /\ (inv'[i].hasResult /\ ~inv[i].hasResult /\ inv'[i].result.streamed) =>
               /\ inv[i].pc = "usage"
               /\ inv'[i].emitted = inv[i].emitted
               /\ inv'[i].result.text = inv[i].fullText]_vars

\* A stream of two fragments ended and its usage resolved to the second value.
C27_Witness ==
  \E i \in InvIds :
    /\ StreamedDone(i)
    /\ Len(inv[i].emitted) = 2
    /\ inv[i].result.usage = "u2"
    /\ inv[i].result.chunkCount = 2

\* ---- invocations side by side
\* C28: of two invocations interleaved at any await, one that returns with a
\* session id different from the other's returns the concatenation of its own
\* fragments, counts its own fragments, and reports metrics with toolsUsed = 1
\* and its own tool name alone.
C28_InvocationsIsolated ==
  \A i \in InvIds : \A j \in InvIds \ {i} :
    (inv[i].outcome = "success" /\ inv[i].sessionId # inv[j].sessionId) =>
      /\ inv[i].result.streamed => inv[i].result.text = Concat(inv[i].emitted)
      /\ inv[i].result.chunkCount = Len(inv[i].emitted)
      /\ inv[i].envelope.content[1].text = inv[i].result.text
      /\ inv[i].envelope.meta.chunkCount = Len(inv[i].emitted)
      /\ inv[i].envelope.meta.performance_metrics.toolsUsed = 1
      /\ inv[i].envelope.meta.performance_metrics.tools = <<inv[i].tool.name>>

\* A buffered audit was received, ran and returned while a streamed generation
\* that had started before it sits in its yield after a hundred fragments.
C28_Witness ==
  /\ inv[1].pc = "yielding"
  /\ Len(inv[1].emitted) = YieldEvery
  /\ inv[2].outcome = "success"
  /\ inv[2].tool.name # inv[1].tool.name
  /\ inv[2].sessionId # inv[1].sessionId
  /\ inv[1].sessionId \in DOMAIN inv[2].sessionsBefore
  /\ inv[2].sessionsBefore[inv[1].sessionId].tools = <<inv[1].tool.name>>
  /\ inv[2].envelope.meta.performance_metrics.tools = <<inv[2].tool.name>>

\* ---- the key of the HTTP wrapper
\* C29: a POST tools/call is answered 400 with error -32602 exactly when
\* V0_API_KEY is unusable once its body has been received, and a key that has
\* been set is never unset again, so it authorises every later request.
C29_KeyGateAndKeyStays ==
  /\ [](\A r \in ReqIds :
          (http.req[r].phase = "done" /\ http.req[r].body = "tools/call") =>
            ((http.req[r].status = 400 /\ http.req[r].code = -32602)
               <=> http.req[r].keyAtEnd # "k"))
  /\ [][proc.key = "k" => proc'.key = "k"]_vars

\* ---- the lazily loaded server
\* C30: whatever the interleaving of tools/list requests, the MCP server is
\* connected to a transport at most once, and a caller of getMcpServer gets
\* the server only once a connect has completed.
C30_ConnectedOnce ==
  /\ http.connects <= 1
  /\ \A r \in ReqIds : http.req[r].gotServer => http.req[r].connectedThen

=============================================================================
